---- MODULE Spec2Model ----
(***************************************************************************)
(* WorkersAIClient (api/app/clients/WorkersAIClient.js): endpoint          *)
(* resolution, model listing, and chat completion in its two transport     *)
(* modes.  The event source (fetchEventSource), axios and the caller are   *)
(* the environment: they choose which handler runs next and with which     *)
(* input; every handler body is translated from the source.                *)
(*                                                                         *)
(* Text is modelled by TLA+ strings and += by \o.  A URL is held in parsed *)
(* form (hostname, path segments, query) and rendered by toString.         *)
(***************************************************************************)
EXTENDS Integers, Sequences, FiniteSets, TLC

VARIABLES
    client,             \* the constructor call: its options, the instance built (self:
                        \* baseURL (run address), apiKey, options), the run address before
    phase,              \* per call: where the event source of the call stands
    intermediateReply,  \* per call: let intermediateReply (line 97)
    done,               \* per call: let done (line 98)
    promise,            \* per call: the promise chatCompletion returned
    progress,           \* per call: the arguments of the onProgress invocations, in order
    arrived,            \* per call: the message events the event source delivered, in order
    sleeping,           \* per call: fragments whose onmessage is suspended in sleep()
    thrown,             \* per call: the error a handler threw back into the event source
    post,               \* the non-streaming call: request count, outcome
    fm                  \* the fetchModels call: inputs, request count, outcome

vars == <<client, phase, intermediateReply, done, promise, progress, arrived,
          sleeping, thrown, post, fm>>

streamVars == <<phase, intermediateReply, done, promise, progress, arrived, sleeping, thrown>>

----------------------------------------------------------------------------
(* Bounds *)

\* messages one event source delivers in a session
MaxEvents == 3

\* entries in a model-search result list
MaxEntries == 2

\* path segments of a base address
MaxSegments == 6

\* messages per session when two sessions run side by side
MaxConcEvents == 2

----------------------------------------------------------------------------
(* Program constants *)

HTTP_OK == 200

SENTINEL == "[DONE]"

TEXT_GENERATION == "Text Generation"

DIRECT_HOST == "api.cloudflare.com"

GATEWAY_HOST == "gateway.ai.cloudflare.com"

----------------------------------------------------------------------------
(* Calls and values *)

Calls == {"A", "B"}

NoError == [kind |-> "none"]

Pending == [state |-> "pending"]

Resolved(v) == [state |-> "resolved", value |-> v]

Rejected(e) == [state |-> "rejected", error |-> e]

\* resolve(v) of a promise: the first settlement wins, later calls are no-ops
resolve(p, v) == IF p.state = "pending" THEN Resolved(v) ELSE p

\* reject(e) of a promise: the first settlement wins, later calls are no-ops
reject(p, e) == IF p.state = "pending" THEN Rejected(e) ELSE p

----------------------------------------------------------------------------
(* The data field of stream events, and JSON.parse of it *)

FragHi == "{\"response\":\"Hi\"}"

FragThere == "{\"response\":\" there\"}"

Malformed == "{oops"

\* JSON.parse(message.data) destructured to { response: msg }
JSONParseResponse(data) ==
    CASE data = FragHi    -> [ok |-> TRUE, response |-> "Hi"]
      [] data = FragThere -> [ok |-> TRUE, response |-> " there"]
      [] OTHER            -> [ok |-> FALSE, response |-> ""]

Messages ==
    { [event |-> "", data |-> d] : d \in {"", SENTINEL, FragHi, FragThere, Malformed} }
    \cup { [event |-> "ping", data |-> FragHi] }

----------------------------------------------------------------------------
(* Streaming mode: the handlers handed to fetchEventSource (lines 99-157) *)

\* onmessage with the callback and the append placed after the sleep as well
onmessageResumeLate(c, msg) ==
    /\ sleeping' = [sleeping EXCEPT ![c] = Tail(@)]
    /\ progress' = [progress EXCEPT ![c] = Append(@, msg)]
    /\ intermediateReply' = [intermediateReply EXCEPT ![c] = @ \o msg]
    /\ UNCHANGED <<phase, done, promise, arrived, thrown>>

\* await sleep(options.streamRate) returning: the handler ends, nothing follows the sleep
onmessageResume(c, msg) ==
    /\ sleeping' = [sleeping EXCEPT ![c] = Tail(@)]
    /\ UNCHANGED <<phase, intermediateReply, done, promise, progress, arrived, thrown>>

\* onmessage with intermediateReply = msg in place of +=
onmessageAssign(c, message) ==
    IF message.data = "" \/ message.event = "ping"
    THEN UNCHANGED <<intermediateReply, done, promise, progress, sleeping>>
    ELSE IF message.data = SENTINEL
    THEN /\ progress' = [progress EXCEPT ![c] = Append(@, SENTINEL)]
         /\ promise' = [promise EXCEPT ![c] = resolve(@, intermediateReply[c])]
         /\ done' = [done EXCEPT ![c] = TRUE]
         /\ UNCHANGED <<intermediateReply, sleeping>>
    ELSE LET parsed == JSONParseResponse(message.data) IN
         IF ~parsed.ok
         THEN UNCHANGED <<intermediateReply, done, promise, progress, sleeping>>
         ELSE /\ progress' = [progress EXCEPT ![c] = Append(@, parsed.response)]
              /\ intermediateReply' = [intermediateReply EXCEPT ![c] = parsed.response]
              /\ sleeping' = [sleeping EXCEPT ![c] = Append(@, parsed.response)]
              /\ UNCHANGED <<done, promise>>

\* onmessage without the ping test
onmessageNoPing(c, message) ==
    IF message.data = ""
    THEN UNCHANGED <<intermediateReply, done, promise, progress, sleeping>>
    ELSE IF message.data = SENTINEL
    THEN /\ progress' = [progress EXCEPT ![c] = Append(@, SENTINEL)]
         /\ promise' = [promise EXCEPT ![c] = resolve(@, intermediateReply[c])]
         /\ done' = [done EXCEPT ![c] = TRUE]
         /\ UNCHANGED <<intermediateReply, sleeping>>
    ELSE LET parsed == JSONParseResponse(message.data) IN
         IF ~parsed.ok
         THEN UNCHANGED <<intermediateReply, done, promise, progress, sleeping>>
         ELSE /\ progress' = [progress EXCEPT ![c] = Append(@, parsed.response)]
              /\ intermediateReply' = [intermediateReply EXCEPT ![c] = @ \o parsed.response]
              /\ sleeping' = [sleeping EXCEPT ![c] = Append(@, parsed.response)]
              /\ UNCHANGED <<done, promise>>

\* onmessage with the accumulated text kept on the instance, shared by its calls
onmessageShared(c, message) ==
    IF message.data = "" \/ message.event = "ping"
    THEN UNCHANGED <<intermediateReply, done, promise, progress, sleeping>>
    ELSE IF message.data = SENTINEL
    THEN /\ progress' = [progress EXCEPT ![c] = Append(@, SENTINEL)]
         /\ promise' = [promise EXCEPT ![c] = resolve(@, intermediateReply[c])]
         /\ done' = [done EXCEPT ![c] = TRUE]
         /\ UNCHANGED <<intermediateReply, sleeping>>
    ELSE LET parsed == JSONParseResponse(message.data) IN
         IF ~parsed.ok
         THEN UNCHANGED <<intermediateReply, done, promise, progress, sleeping>>
         ELSE /\ progress' = [progress EXCEPT ![c] = Append(@, parsed.response)]
              /\ intermediateReply' = [d \in Calls |-> intermediateReply[d] \o parsed.response]
              /\ sleeping' = [sleeping EXCEPT ![c] = Append(@, parsed.response)]
              /\ UNCHANGED <<done, promise>>

\* async onmessage(message), up to its first suspension
onmessage(c, message) ==
    IF message.data = "" \/ message.event = "ping"
    THEN UNCHANGED <<intermediateReply, done, promise, progress, sleeping>>
    ELSE IF message.data = SENTINEL
    THEN /\ progress' = [progress EXCEPT ![c] = Append(@, SENTINEL)]
         /\ promise' = [promise EXCEPT ![c] = resolve(@, intermediateReply[c])]
         /\ done' = [done EXCEPT ![c] = TRUE]
         /\ UNCHANGED <<intermediateReply, sleeping>>
    ELSE LET parsed == JSONParseResponse(message.data) IN
         IF ~parsed.ok
         THEN \* JSON.parse throws inside the async handler: its own promise rejects
              UNCHANGED <<intermediateReply, done, promise, progress, sleeping>>
         ELSE /\ progress' = [progress EXCEPT ![c] = Append(@, parsed.response)]
              /\ intermediateReply' = [intermediateReply EXCEPT ![c] = @ \o parsed.response]
              /\ sleeping' = [sleeping EXCEPT ![c] = Append(@, parsed.response)]
              /\ UNCHANGED <<done, promise>>

\* onclose with the test inverted: if (done) in place of if (!done)
oncloseInverted(c) ==
    /\ IF done[c]
       THEN /\ progress' = [progress EXCEPT ![c] = Append(@, SENTINEL)]
            /\ promise' = [promise EXCEPT ![c] = resolve(@, intermediateReply[c])]
       ELSE UNCHANGED <<progress, promise>>
    /\ UNCHANGED <<intermediateReply, done, sleeping>>

\* onclose without the done test
oncloseUnguarded(c) ==
    /\ progress' = [progress EXCEPT ![c] = Append(@, SENTINEL)]
    /\ promise' = [promise EXCEPT ![c] = resolve(@, intermediateReply[c])]
    /\ UNCHANGED <<intermediateReply, done, sleeping>>

\* onclose()
onclose(c) ==
    /\ IF ~done[c]
       THEN /\ progress' = [progress EXCEPT ![c] = Append(@, SENTINEL)]
            /\ promise' = [promise EXCEPT ![c] = resolve(@, intermediateReply[c])]
       ELSE UNCHANGED <<progress, promise>>
    /\ UNCHANGED <<intermediateReply, done, sleeping>>

\* onerror(err): logs and rethrows; the throw lands in the event source, which stops
onerror(c, err) ==
    /\ thrown' = [thrown EXCEPT ![c] = err]
    /\ UNCHANGED <<intermediateReply, done, progress, sleeping>>

\* JSON.parse(body) of a non-200 response body
BodyIsJSON(body) == body = "{\"errors\":[]}"

ResponseBodies == {"{\"errors\":[]}", "Bad Gateway", "unreadable"}

\* the Error onopen builds for a non-200 response; response.text() may itself fail
OpenError(status, body) ==
    [kind |-> "http",
     status |-> status,
     body |-> IF body = "unreadable" THEN "" ELSE body,
     json |-> IF body # "unreadable" /\ BodyIsJSON(body) THEN body ELSE "unset"]

NetworkError == [kind |-> "network"]

StringifyError == [kind |-> "stringify"]

----------------------------------------------------------------------------
(* URLs.  A parsed URL is [hostname, pathname, search]; pathname is the     *)
(* sequence of segments after the leading "/", so "/" is <<"">> and         *)
(* "/v1/ACC" is <<"v1", "ACC">>.                                            *)

Min(a, b) == IF a < b THEN a ELSE b

\* Array.prototype.join('/')
RECURSIVE Join(_)
Join(arr) ==
    IF Len(arr) = 0 THEN ""
    ELSE IF Len(arr) = 1 THEN arr[1]
    ELSE arr[1] \o "/" \o Join(Tail(arr))

\* pathname.split('/'): the pathname starts with "/", so the array starts with ""
Split(pathname) == <<"">> \o pathname

\* .filter((_, i) => i < n)
FilterIndexBelow(arr, n) == SubSeq(arr, 1, Min(n, Len(arr)))

\* parsedURL.pathname = arr.join('/'): the setter reads the string back into segments
SetPathname(arr) ==
    IF Len(arr) = 0 THEN <<"">>
    ELSE IF arr[1] = "" /\ Len(arr) > 1 THEN Tail(arr)
    ELSE arr

\* URL.prototype.toString()
toString(u) == "https://" \o u.hostname \o "/" \o Join(u.pathname) \o u.search

\* the index of the first ch in str at or after i, or Len(str) + 1
RECURSIVE IndexOf(_, _, _)
IndexOf(str, ch, i) ==
    IF i > Len(str) THEN Len(str) + 1
    ELSE IF SubSeq(str, i, i) = ch THEN i
    ELSE IndexOf(str, ch, i + 1)

\* String.prototype.split('/') of a string
RECURSIVE SplitString(_)
SplitString(str) ==
    LET k == IndexOf(str, "/", 1)
    IN  IF k > Len(str) THEN <<str>>
        ELSE <<SubSeq(str, 1, k - 1)>> \o SplitString(SubSeq(str, k + 1, Len(str)))

\* new URL(href) of an https URL string: hostname up to the first "/" or "?", search
\* from the first "?", pathname between the two ("/" when empty)
ParseURL(href) ==
    LET rest == SubSeq(href, Len("https://") + 1, Len(href))
        q == IndexOf(rest, "?", 1)
        h == Min(IndexOf(rest, "/", 1), q)
        path == SubSeq(rest, h, q - 1)
    IN  [kind |-> "url",
         hostname |-> SubSeq(rest, 1, h - 1),
         pathname |-> IF path = "" THEN <<"">> ELSE Tail(SplitString(path)),
         search |-> SubSeq(rest, q, Len(rest))]

\* what a caller passes as baseURL: absent, the empty string, a string new URL() rejects, or a URL
Url(host, path, search) == [kind |-> "url", hostname |-> host, pathname |-> path, search |-> search]

DirectPrefix == <<"client", "v4", "accounts", "ACC", "ai">>

GatewayPrefix == <<"v1", "ACC", "GW">>

BaseURLs ==
    { [kind |-> "absent"], [kind |-> "empty"], [kind |-> "invalid"] }
    \cup { Url(DIRECT_HOST, p, "") :
             p \in { DirectPrefix, DirectPrefix \o <<"v1">>, DirectPrefix \o <<"">>, <<"client", "v4">> } }
    \cup { Url(GATEWAY_HOST, p, "") :
             p \in { GatewayPrefix, GatewayPrefix \o <<"workers-ai">>, GatewayPrefix \o <<"">>, <<"v1">> } }
    \cup { Url("example.com", p, q) : p \in { <<"">>, <<"api", "v1">> }, q \in {"", "?x=1"} }
    \cup { Url(DIRECT_HOST, DirectPrefix, "?x=1") }

\* new URL(baseURL) throws a TypeError unless baseURL is an absolute URL
URLParses(baseURL) == baseURL.kind = "url"

\* !baseURL
Falsy(v) == v.kind \in {"absent", "empty"}

\* formatBaseURL keeping one segment more of a direct-provider path (i < 7)
formatBaseURLDeep(baseURL) ==
    LET parsedURL == [hostname |-> baseURL.hostname, pathname |-> baseURL.pathname,
                      search |-> baseURL.search]
    IN  CASE parsedURL.hostname = DIRECT_HOST ->
               toString([parsedURL EXCEPT
                   !.pathname = SetPathname(FilterIndexBelow(Split(@), 7))])
          [] parsedURL.hostname = GATEWAY_HOST ->
               toString([parsedURL EXCEPT
                   !.pathname = SetPathname(FilterIndexBelow(Split(@), 4) \o <<"workers-ai">>)])
          [] OTHER -> toString(parsedURL)

\* formatBaseURL keeping one segment less of a gateway path (i < 3)
formatBaseURLShallow(baseURL) ==
    LET parsedURL == [hostname |-> baseURL.hostname, pathname |-> baseURL.pathname,
                      search |-> baseURL.search]
    IN  CASE parsedURL.hostname = DIRECT_HOST ->
               toString([parsedURL EXCEPT
                   !.pathname = SetPathname(FilterIndexBelow(Split(@), 6))])
          [] parsedURL.hostname = GATEWAY_HOST ->
               toString([parsedURL EXCEPT
                   !.pathname = SetPathname(FilterIndexBelow(Split(@), 3) \o <<"workers-ai">>)])
          [] OTHER -> toString(parsedURL)

\* formatBaseURL appending workers-ai to a gateway path it does not truncate
formatBaseURLAppendOnly(baseURL) ==
    LET parsedURL == [hostname |-> baseURL.hostname, pathname |-> baseURL.pathname,
                      search |-> baseURL.search]
    IN  CASE parsedURL.hostname = DIRECT_HOST ->
               toString([parsedURL EXCEPT
                   !.pathname = SetPathname(FilterIndexBelow(Split(@), 6))])
          [] parsedURL.hostname = GATEWAY_HOST ->
               toString([parsedURL EXCEPT
                   !.pathname = SetPathname(Split(@) \o <<"workers-ai">>)])
          [] OTHER -> toString(parsedURL)

\* formatBaseURL (lines 199-217), on a baseURL that parses
formatBaseURL(baseURL) ==
    LET parsedURL == [hostname |-> baseURL.hostname, pathname |-> baseURL.pathname,
                      search |-> baseURL.search]
    IN  CASE parsedURL.hostname = DIRECT_HOST ->
               toString([parsedURL EXCEPT
                   !.pathname = SetPathname(FilterIndexBelow(Split(@), 6))])
          [] parsedURL.hostname = GATEWAY_HOST ->
               toString([parsedURL EXCEPT
                   !.pathname = SetPathname(FilterIndexBelow(Split(@), 4) \o <<"workers-ai">>)])
          [] OTHER -> toString(parsedURL)

----------------------------------------------------------------------------
(* The client instance *)

\* setOptions (lines 27-37): the ?? defaults
setOptions(opts) ==
    [defaultHeaders |-> IF opts.defaultHeaders = "absent"
                        THEN "Content-Type: application/json" ELSE opts.defaultHeaders,
     streamRate |-> IF opts.streamRate = "absent"
                    THEN "DEFAULT_STREAM_RATE" ELSE opts.streamRate]

\* constructor (lines 15-20)
WorkersAIClient(options) ==
    [baseURL |-> formatBaseURL(options.baseURL) \o "/run",
     apiKey |-> options.apiKey,
     options |-> setOptions([defaultHeaders |-> options.defaultHeaders,
                             streamRate |-> options.streamRate])]

ClientOptions(baseURL) ==
    [baseURL |-> baseURL, apiKey |-> "key", defaultHeaders |-> "absent", streamRate |-> "absent"]

\* new WorkersAIClient(options), as the variable client holds it
Constructed(options, previous) ==
    [state |-> "built", options |-> options, self |-> WorkersAIClient(options),
     previous |-> previous]

NoClient ==
    [state |-> "none", options |-> ClientOptions([kind |-> "absent"]),
     self |-> [baseURL |-> "", apiKey |-> "", options |-> setOptions(ClientOptions([kind |-> "absent"]))],
     previous |-> ""]

ModelIds == {"@cf/meta/llama-2-7b-chat-int8", "@cf/mistral/mistral-7b-instruct-v0.1"}

----------------------------------------------------------------------------
(* Streaming mode: chatCompletion with payload.stream true (lines 93-162) *)

\* try { ... } catch (err) { reject(err) } of the promise executor (lines 96, 158-160).
\* fetchEventSource(...) is called without await, so the try block is left as soon as
\* the call returns: only an error thrown during the call itself reaches the catch.
executorCatch(c, err, duringCall) ==
    promise' = [promise EXCEPT ![c] = IF duringCall THEN reject(@, err) ELSE @]

\* chatCompletion({ payload, onProgress, abortController }) with payload.stream true:
\* the executor runs up to the return of fetchEventSource(...).  JSON.stringify(payload)
\* (line 105) is the one expression of the call that can throw.
chatCompletionStream(c, serializable) ==
    /\ phase[c] = "idle"
    /\ IF serializable
       THEN /\ phase' = [phase EXCEPT ![c] = "connecting"]
            /\ UNCHANGED promise
       ELSE /\ phase' = [phase EXCEPT ![c] = "unsent"]
            /\ executorCatch(c, StringifyError, TRUE)
    /\ UNCHANGED <<client, intermediateReply, done, progress, arrived, sleeping, thrown, post, fm>>

\* the response arrives: async onopen(response).  On a status other than 200 it throws,
\* the event source hands the error to onerror, which rethrows, and the stream stops.
Open(c, status, body) ==
    /\ phase[c] = "connecting"
    /\ IF status = HTTP_OK
       THEN /\ phase' = [phase EXCEPT ![c] = "streaming"]
            /\ UNCHANGED <<intermediateReply, done, promise, progress, sleeping, thrown>>
       ELSE /\ phase' = [phase EXCEPT ![c] = "failed"]
            /\ onerror(c, OpenError(status, body))
            /\ executorCatch(c, OpenError(status, body), FALSE)
    /\ UNCHANGED <<client, arrived, post, fm>>

\* the event source delivers one message event to onmessage
Deliver(c, message) ==
    /\ phase[c] = "streaming"
    /\ Len(arrived[c]) < MaxEvents
    /\ arrived' = [arrived EXCEPT ![c] = Append(@, message)]
    /\ onmessage(c, message)
    /\ UNCHANGED <<client, phase, thrown, post, fm>>

\* a sleep(options.streamRate) timer fires: the oldest suspended onmessage resumes
SleepDone(c) ==
    /\ sleeping[c] # <<>>
    /\ onmessageResume(c, Head(sleeping[c]))
    /\ UNCHANGED <<client, post, fm>>

\* the response body ends: the event source calls onclose
Close(c) ==
    /\ phase[c] = "streaming"
    /\ phase' = [phase EXCEPT ![c] = "closed"]
    /\ onclose(c)
    /\ UNCHANGED <<client, arrived, thrown, post, fm>>

\* the fetch or the body read fails: the event source calls onerror
StreamError(c) ==
    /\ phase[c] \in {"connecting", "streaming"}
    /\ phase' = [phase EXCEPT ![c] = "failed"]
    /\ onerror(c, NetworkError)
    /\ executorCatch(c, NetworkError, FALSE)
    /\ UNCHANGED <<client, arrived, post, fm>>

\* the caller signals abortController (signal, line 106): the event source cancels the
\* request and calls no handler again
Abort(c) ==
    /\ phase[c] \in {"connecting", "streaming"}
    /\ phase' = [phase EXCEPT ![c] = "aborted"]
    /\ UNCHANGED <<client, intermediateReply, done, promise, progress, arrived, sleeping,
                   thrown, post, fm>>

----------------------------------------------------------------------------
(* Non-streaming mode: chatCompletion with payload.stream false (lines 164-183) *)

HTTPStatuses == {200, 204, 404, 500}

\* response.data: absent, or the provider's envelope { success, result: { response } }
Body(success, response) == [present |-> TRUE, success |-> success, response |-> response]

NoBody == [present |-> FALSE, success |-> "missing", response |-> ""]

PostBodies ==
    { NoBody, Body("true", "Hi there"), Body("true", ""), Body("false", ""),
      Body("false", "partial"), Body("missing", "") }

\* response.data?.success, as a condition
SuccessFlag(data) == data.present /\ data.success = "true"

TransportErrors == {"network", "status", "canceled"}

\* await axios.default.post(options.endpoint, payload, ...) is issued (line 165)
chatCompletionPost(model) ==
    /\ post.phase = "idle"
    /\ post' = [post EXCEPT !.phase = "requested",
                            !.count = @ + 1,
                            !.endpoint = client.self.baseURL \o "/" \o model]
    /\ UNCHANGED <<client, fm>>
    /\ UNCHANGED streamVars

\* the CompletionError of lines 170-176
CompletionError(status, data) == [kind |-> "completion", status |-> status, json |-> data]

\* the failure test with && in place of ||
completionResultAnd(status, data) ==
    IF status # HTTP_OK /\ ~SuccessFlag(data)
    THEN Rejected(CompletionError(status, data))
    ELSE Resolved(data.response)

\* lines 169-182 on the response axios returned
completionResult(status, data) ==
    IF status # HTTP_OK \/ ~SuccessFlag(data)
    THEN Rejected(CompletionError(status, data))
    ELSE Resolved(data.response)

\* axios returns a response
PostResponds(status, data) ==
    /\ post.phase = "requested"
    /\ post' = [post EXCEPT !.phase = "settled",
                            !.outcome = [kind |-> "response", status |-> status, data |-> data],
                            !.result = completionResult(status, data)]
    /\ UNCHANGED <<client, fm>>
    /\ UNCHANGED streamVars

\* axios rejects (no connection, a status its validateStatus refuses, or the signal
\* aborted): the await throws and chatCompletion rejects with that error
PostFails(kind) ==
    /\ post.phase = "requested"
    /\ post' = [post EXCEPT !.phase = "settled",
                            !.outcome = [kind |-> kind, status |-> 0, data |-> NoBody],
                            !.result = Rejected([kind |-> kind, status |-> 0, json |-> NoBody])]
    /\ UNCHANGED <<client, fm>>
    /\ UNCHANGED streamVars

----------------------------------------------------------------------------
(* Model listing: static fetchModels, in its two versions *)

ApiKeys == { [kind |-> "absent"], [kind |-> "empty"], [kind |-> "string"] }

\* a Model Entry { name, task: { name } }; the task object or its name may be missing
Entry(name, hasTask, taskName) == [name |-> name, hasTask |-> hasTask, taskName |-> taskName]

Entries ==
    { Entry("llama", TRUE, TEXT_GENERATION), Entry("mistral", TRUE, TEXT_GENERATION),
      Entry("bge", TRUE, "Embeddings"), Entry("anon", TRUE, "undefined"),
      Entry("bare", FALSE, "undefined") }

RECURSIVE SeqsUpTo(_, _)
SeqsUpTo(S, n) ==
    IF n = 0 THEN { <<>> }
    ELSE LET shorter == SeqsUpTo(S, n - 1)
         IN  shorter \cup { Append(q, e) : q \in shorter, e \in S }

\* what axios.get(endpoint, options) ends with: a rejection, or a response whose data
\* may be absent, may lack result, or holds a result list
GetOutcomes ==
    { [kind |-> k, result |-> <<>>] : k \in {"network", "status", "nodata", "noresult"} }
    \cup { [kind |-> "list", result |-> r] : r \in SeqsUpTo(Entries, MaxEntries) }

\* the filter/map collecting the names newest first
RECURSIVE filterMapPrepend(_)
filterMapPrepend(result) ==
    IF result = <<>> THEN <<>>
    ELSE IF Head(result).taskName = TEXT_GENERATION
         THEN filterMapPrepend(Tail(result)) \o <<Head(result).name>>
         ELSE filterMapPrepend(Tail(result))

\* .filter((m) => m.task.name === 'Text Generation').map((m) => m.name)
RECURSIVE filterMap(_)
filterMap(result) ==
    IF result = <<>> THEN <<>>
    ELSE IF Head(result).taskName = TEXT_GENERATION
         THEN <<Head(result).name>> \o filterMap(Tail(result))
         ELSE filterMap(Tail(result))

\* m.task.name throws a TypeError on an entry that has no task
filterThrows(result) == \E i \in 1..Len(result) : ~result[i].hasTask

\* lines 61-64 (part_000: 43-46) on what axios.get ended with: the value returned, or
\* threw when the await or the filter/map throws
tryBody(outcome) ==
    IF outcome.kind # "list" \/ filterThrows(outcome.result)
    THEN [threw |-> TRUE, models |-> <<>>]
    ELSE [threw |-> FALSE, models |-> filterMap(outcome.result)]

\* a catch that logs and rethrows
catchRethrow(call) == [call EXCEPT !.phase = "rejected", !.caught = TRUE]

\* catch (error) { logger.error(logMessage, error); return []; }
catchAll(call) == [call EXCEPT !.phase = "resolved", !.models = <<>>, !.caught = TRUE]

\* the early return with && in place of ||
earlyReturnAnd(baseURL, apiKey) == Falsy(baseURL) /\ Falsy(apiKey)

\* if (!baseURL || !apiKey) return models;
earlyReturn(baseURL, apiKey) == Falsy(baseURL) \/ Falsy(apiKey)

\* the endpoint of part_000 lines 21-39, or "none" for the default branch
endpointPart000(baseURL) ==
    LET parsedURL == [hostname |-> baseURL.hostname, pathname |-> baseURL.pathname,
                      search |-> baseURL.search]
        last == parsedURL.pathname[Len(parsedURL.pathname)]
        sliced == IF last = "v1"
                  THEN SetPathname(<<"">> \o SubSeq(parsedURL.pathname, 1, Len(parsedURL.pathname) - 1))
                  ELSE parsedURL.pathname
    IN  CASE parsedURL.hostname = DIRECT_HOST ->
               toString([parsedURL EXCEPT !.pathname = sliced \o <<"models", "search">>])
          [] parsedURL.hostname = GATEWAY_HOST ->
               toString([parsedURL EXCEPT
                   !.pathname = SetPathname(FilterIndexBelow(Split(@), 4)
                                            \o <<"workers-ai", "models", "search">>)])
          [] OTHER -> "none"

\* static async fetchModels(baseURL, apiKey) of WorkersAIClient.js, up to the await
fetchModels(baseURL, apiKey) ==
    /\ fm.phase = "idle"
    /\ LET call == [fm EXCEPT !.impl = "main", !.baseURL = baseURL, !.apiKey = apiKey]
       IN  IF earlyReturn(baseURL, apiKey)
           THEN fm' = [call EXCEPT !.phase = "resolved"]
           ELSE IF ~URLParses(baseURL)
           THEN \* new URL(baseURL) throws inside the try
                fm' = catchAll(call)
           ELSE fm' = [call EXCEPT !.phase = "requested",
                                   !.gets = @ + 1,
                                   !.endpoint = formatBaseURL(baseURL) \o "/models/search"]
    /\ UNCHANGED <<client, post>>
    /\ UNCHANGED streamVars

\* static async fetchModels(baseURL, apiKey) of part_000, up to the await
fetchModelsPart000(baseURL, apiKey) ==
    /\ fm.phase = "idle"
    /\ LET call == [fm EXCEPT !.impl = "part_000", !.baseURL = baseURL, !.apiKey = apiKey]
       IN  IF earlyReturn(baseURL, apiKey)
           THEN fm' = [call EXCEPT !.phase = "resolved"]
           ELSE IF ~URLParses(baseURL)
           THEN fm' = catchAll(call)
           ELSE IF endpointPart000(baseURL) = "none"
           THEN \* default: return models;
                fm' = [call EXCEPT !.phase = "resolved"]
           ELSE fm' = [call EXCEPT !.phase = "requested",
                                   !.gets = @ + 1,
                                   !.endpoint = endpointPart000(baseURL)]
    /\ UNCHANGED <<client, post>>
    /\ UNCHANGED streamVars

\* axios.get settles and fetchModels runs to its return
GetSettles(outcome) ==
    /\ fm.phase = "requested"
    /\ LET call == [fm EXCEPT !.outcome = outcome]
           body == tryBody(outcome)
       IN  IF body.threw
           THEN fm' = catchAll(call)
           ELSE fm' = [call EXCEPT !.phase = "resolved", !.models = body.models]
    /\ UNCHANGED <<client, post>>
    /\ UNCHANGED streamVars

----------------------------------------------------------------------------
(* Specifications *)

NoOutcome == [kind |-> "none", result |-> <<>>]

InitCommon ==
    /\ phase = [c \in Calls |-> "idle"]
    /\ intermediateReply = [c \in Calls |-> ""]
    /\ done = [c \in Calls |-> FALSE]
    /\ promise = [c \in Calls |-> Pending]
    /\ progress = [c \in Calls |-> <<>>]
    /\ arrived = [c \in Calls |-> <<>>]
    /\ sleeping = [c \in Calls |-> <<>>]
    /\ thrown = [c \in Calls |-> NoError]
    /\ post = [phase |-> "idle", count |-> 0, endpoint |-> "",
               outcome |-> [kind |-> "none", status |-> 0, data |-> NoBody],
               result |-> Pending]
    /\ fm = [phase |-> "idle", impl |-> "", baseURL |-> [kind |-> "absent"],
             apiKey |-> [kind |-> "absent"], gets |-> 0, endpoint |-> "",
             outcome |-> NoOutcome, models |-> <<>>, caught |-> FALSE]

\* one streaming call on a client built from the direct-provider address
Init ==
    /\ InitCommon
    /\ client = Constructed(ClientOptions(Url(DIRECT_HOST, DirectPrefix \o <<"v1">>, "")), "")

StreamStep(c) ==
    \/ \E serializable \in BOOLEAN : chatCompletionStream(c, serializable)
    \/ \E status \in HTTPStatuses, body \in ResponseBodies : Open(c, status, body)
    \/ \E message \in Messages : Deliver(c, message)
    \/ SleepDone(c)
    \/ Close(c)
    \/ StreamError(c)
    \/ Abort(c)

Next == StreamStep("A")

Spec == Init /\ [][Next]_vars

\* one non-streaming call, on a client built from any base address that parses
InitPost ==
    /\ InitCommon
    /\ \E baseURL \in { u \in BaseURLs : URLParses(u) } :
         client = Constructed(ClientOptions(baseURL), "")

NextPost ==
    \/ \E model \in ModelIds : chatCompletionPost(model)
    \/ \E status \in HTTPStatuses, data \in PostBodies : PostResponds(status, data)
    \/ \E kind \in TransportErrors : PostFails(kind)

SpecPost == InitPost /\ [][NextPost]_vars

\* two streaming calls on the same instance, their events interleaved in any order
ConcMessages == { [event |-> "", data |-> d] : d \in {SENTINEL, FragHi, FragThere} }

ConcStep(c) ==
    \/ chatCompletionStream(c, TRUE)
    \/ Open(c, HTTP_OK, "unreadable")
    \/ /\ Len(arrived[c]) < MaxConcEvents
       /\ \E message \in ConcMessages : Deliver(c, message)
    \/ SleepDone(c)
    \/ Close(c)
    \/ StreamError(c)
    \/ Abort(c)

NextConc == \E c \in Calls : ConcStep(c)

SpecConc == Init /\ [][NextConc]_vars

----------------------------------------------------------------------------
(* Endpoint resolution: clients built from a range of base addresses *)

DirectPool == <<"client", "v4", "accounts", "ACC", "ai", "v1", "chat", "completions">>

GatewayPool == <<"v1", "ACC", "GW", "workers-ai", "v1", "chat", "completions", "stream">>

\* the paths of up to MaxSegments segments along a pool, with and without a trailing "/"
PathsAlong(pool) ==
    { SubSeq(pool, 1, n) \o t : n \in 1..MaxSegments, t \in { <<>>, <<"">> } } \cup { <<"">> }

ResolveURLs ==
    { [kind |-> "invalid"] }
    \cup { Url(DIRECT_HOST, p, q) : p \in PathsAlong(DirectPool), q \in {"", "?x=1"} }
    \cup { Url(GATEWAY_HOST, p, q) : p \in PathsAlong(GatewayPool), q \in {"", "?x=1"} }
    \cup { Url("example.com", p, "") : p \in { <<"">>, <<"api", "v1">> } }

\* new WorkersAIClient({ baseURL, apiKey }): formatBaseURL runs outside any try, so a
\* baseURL that new URL() rejects makes the constructor throw
Construct(baseURL) ==
    /\ client.state = "none"
    /\ IF URLParses(baseURL)
       THEN client' = Constructed(ClientOptions(baseURL), "")
       ELSE client' = [client EXCEPT !.state = "threw", !.options = ClientOptions(baseURL)]
    /\ UNCHANGED <<post, fm>>
    /\ UNCHANGED streamVars

\* a second client is built from the address the first one resolved
Reconstruct ==
    /\ client.state = "built"
    /\ client.previous = ""
    /\ client' = Constructed(ClientOptions(ParseURL(formatBaseURL(client.options.baseURL))),
                             client.self.baseURL)
    /\ UNCHANGED <<post, fm>>
    /\ UNCHANGED streamVars

\* WorkersAIClient.fetchModels is called with the base address the client was built from
ListModels ==
    /\ client.state = "built"
    /\ fetchModels(client.options.baseURL, [kind |-> "string"])

InitResolve ==
    /\ InitCommon
    /\ client = NoClient

NextResolve ==
    \/ \E baseURL \in ResolveURLs : Construct(baseURL)
    \/ Reconstruct
    \/ ListModels

SpecResolve == InitResolve /\ [][NextResolve]_vars

\* one fetchModels call, of either version, with any inputs
NextModels ==
    \/ \E baseURL \in BaseURLs, apiKey \in ApiKeys : fetchModels(baseURL, apiKey)
    \/ \E baseURL \in BaseURLs, apiKey \in ApiKeys : fetchModelsPart000(baseURL, apiKey)
    \/ \E outcome \in GetOutcomes : GetSettles(outcome)

SpecModels == Init /\ [][NextModels]_vars

----------------------------------------------------------------------------
(* Vocabulary of the properties, over the events the event source delivered *)

IsSentinel(m) == m.event # "ping" /\ m.data = SENTINEL

IsFragment(m) == m.event # "ping" /\ m.data \notin {"", SENTINEL} /\ JSONParseResponse(m.data).ok

\* the response texts of the fragment messages of a sequence of events, in order
RECURSIVE Texts(_)
Texts(events) ==
    IF events = <<>> THEN <<>>
    ELSE IF IsFragment(Head(events))
         THEN <<JSONParseResponse(Head(events).data).response>> \o Texts(Tail(events))
         ELSE Texts(Tail(events))

RECURSIVE Concat(_)
Concat(texts) == IF texts = <<>> THEN "" ELSE Head(texts) \o Concat(Tail(texts))

Count(seq, x) == Cardinality({ i \in 1..Len(seq) : seq[i] = x })

NoSentinelArrived(c) == \A i \in 1..Len(arrived[c]) : ~IsSentinel(arrived[c][i])

FragmentsThenSentinel(events) ==
    /\ Len(events) >= 1
    /\ IsSentinel(events[Len(events)])
    /\ \A i \in 1..(Len(events) - 1) : IsFragment(events[i])

\* the stream of a call has ended and no handler of it is still suspended
Quiescent(c) == phase[c] \in {"unsent", "closed", "failed", "aborted"} /\ sleeping[c] = <<>>

----------------------------------------------------------------------------
(* Properties *)

\* C1: when the stream opened with 200 and delivered fragment messages followed by one
\* [DONE] message, the promise is resolved with the concatenation of the fragments'
\* texts in arrival order, and onProgress was invoked once per fragment in arrival
\* order and then once with [DONE].
C1_FragmentsThenDone ==
    \A c \in Calls :
        FragmentsThenSentinel(arrived[c]) =>
            /\ promise[c] = Resolved(Concat(Texts(arrived[c])))
            /\ progress[c] = Texts(arrived[c]) \o <<SENTINEL>>

C1_Witness ==
    /\ arrived["A"] = << [event |-> "", data |-> FragHi], [event |-> "", data |-> FragThere],
                         [event |-> "", data |-> SENTINEL] >>
    /\ promise["A"] = Resolved("Hi there")
    /\ phase["A"] = "closed"

\* C2: once onerror was invoked for a stream failure while the promise was not resolved,
\* and the call has come to rest, the promise is rejected with that error.
C2_ErrorRejects ==
    \A c \in Calls :
        (Quiescent(c) /\ thrown[c].kind = "network" /\ promise[c].state # "resolved")
            => promise[c] = Rejected(thrown[c])

\* C3: once the stream opened with a status other than 200 and the call has come to
\* rest, the promise is rejected with an error whose status is that HTTP status.
C3_BadStatusRejects ==
    \A c \in Calls :
        (Quiescent(c) /\ thrown[c].kind = "http")
            => /\ promise[c].state = "rejected"
               /\ promise[c].error.status = thrown[c].status

\* C4: when the event source closes and no [DONE] message was received, the promise is
\* resolved with the text accumulated so far, and onProgress got [DONE] exactly once,
\* as its last invocation.
C4_CloseWithoutSentinel ==
    \A c \in Calls :
        (phase[c] = "closed" /\ NoSentinelArrived(c)) =>
            /\ promise[c] = Resolved(Concat(Texts(arrived[c])))
            /\ progress[c] = Texts(arrived[c]) \o <<SENTINEL>>
            /\ Count(progress[c], SENTINEL) = 1

C4_Witness ==
    /\ phase["A"] = "closed"
    /\ NoSentinelArrived("A")
    /\ Len(Texts(arrived["A"])) = 2
    /\ promise["A"] = Resolved("Hi there")

\* C5: once the caller aborted after the first fragment and before [DONE], and the call
\* has come to rest, the promise is settled, as a rejection.
C5_AbortRejects ==
    \A c \in Calls :
        (Quiescent(c) /\ phase[c] = "aborted" /\ Len(Texts(arrived[c])) >= 1
                      /\ NoSentinelArrived(c))
            => promise[c].state = "rejected"

\* C6: after the abort of a call was observed, no step invokes its onProgress, changes
\* its accumulated text or settles its promise.
C6_NothingAfterAbort ==
    [][\A c \in Calls :
         phase[c] = "aborted" =>
             /\ progress'[c] = progress[c]
             /\ intermediateReply'[c] = intermediateReply[c]
             /\ promise'[c] = promise[c]]_vars

\* an abort with one fragment delivered, its handler still in sleep(), and no [DONE]
C6_Witness ==
    /\ phase["A"] = "aborted"
    /\ sleeping["A"] # <<>>
    /\ progress["A"] = <<"Hi">>
    /\ promise["A"] = Pending

\* C7: a non-streaming call issues exactly one POST; it returns
\* response.data.result.response exactly when the status is 200 and the success flag is
\* true, and rejects in every other outcome; on 200 with success false the error carries
\* status 200 and the response body as json.
C7_NonStreaming ==
    /\ post.count = IF post.phase = "idle" THEN 0 ELSE 1
    /\ post.phase = "settled" =>
         LET o == post.outcome
             ok == o.kind = "response" /\ o.status = 200 /\ o.data.present
                      /\ o.data.success = "true"
         IN  /\ post.result.state \in {"resolved", "rejected"}
             /\ (post.result.state = "resolved") <=> ok
             /\ ok => post.result = Resolved(o.data.response)
             /\ (o.kind = "response" /\ o.status = 200 /\ o.data.present
                    /\ o.data.success = "false")
                  => /\ post.result.state = "rejected"
                     /\ post.result.error.status = 200
                     /\ post.result.error.json = o.data

C7_Witness ==
    /\ post.phase = "settled"
    /\ post.outcome = [kind |-> "response", status |-> 200, data |-> Body("false", "partial")]
    /\ post.result.state = "rejected"

\* an entry whose task object is missing: m.task.name throws on it
LacksTask(result) == \E i \in 1..Len(result) : ~result[i].hasTask

\* C8: fetchModels never rejects: whatever baseURL, apiKey and outcome of the GET, the
\* call resolves; and when the URL does not parse, the request fails, the status is
\* refused, the body has no result array or an entry has no task, it resolves with the
\* empty sequence.
C8_FetchModelsNeverThrows ==
    /\ fm.phase \in {"idle", "requested", "resolved"}
    /\ (fm.phase = "resolved" /\ ~Falsy(fm.baseURL) /\ ~Falsy(fm.apiKey)
          /\ (\/ ~URLParses(fm.baseURL)
              \/ fm.outcome.kind \in {"network", "status", "nodata", "noresult"}
              \/ (fm.outcome.kind = "list" /\ LacksTask(fm.outcome.result))))
         => fm.models = <<>>

C8_Witness ==
    /\ fm.phase = "resolved"
    /\ fm.outcome.kind = "list"
    /\ LacksTask(fm.outcome.result)
    /\ \E i \in 1..Len(fm.outcome.result) : fm.outcome.result[i].taskName = TEXT_GENERATION
    /\ fm.caught

\* C9: for a base address whose hostname is neither api.cloudflare.com nor
\* gateway.ai.cloudflare.com, fetchModels returns the empty sequence.
C9_UnsupportedHostEmpty ==
    (fm.phase = "resolved" /\ URLParses(fm.baseURL)
        /\ fm.baseURL.hostname \notin {DIRECT_HOST, GATEWAY_HOST})
      => fm.models = <<>>

\* C10: with baseURL or apiKey empty or absent, fetchModels returns the empty sequence
\* and issues no request and resolves no URL.
C10_NoInputNoRequest ==
    (fm.phase # "idle" /\ (Falsy(fm.baseURL) \/ Falsy(fm.apiKey)))
      => /\ fm.phase = "resolved"
         /\ fm.models = <<>>
         /\ fm.gets = 0
         /\ fm.endpoint = ""
         /\ ~fm.caught

C10_Witness ==
    /\ fm.phase = "resolved"
    /\ URLParses(fm.baseURL)
    /\ Falsy(fm.apiKey)
    /\ fm.gets = 0

IsTextGeneration(e) == e.taskName = "Text Generation"

\* C11: for a model-search response that is processed without error, fetchModels
\* returns the names of the entries whose task.name is 'Text Generation', in the order
\* of the result list: none of another classification, none dropped, duplicated or
\* reordered.
C11_TextGenerationInOrder ==
    (fm.phase = "resolved" /\ fm.outcome.kind = "list" /\ ~LacksTask(fm.outcome.result))
      => LET kept == SelectSeq(fm.outcome.result, IsTextGeneration)
         IN  fm.models = [i \in 1..Len(kept) |-> kept[i].name]

C11_Witness ==
    /\ fm.phase = "resolved"
    /\ fm.outcome.kind = "list"
    /\ Len(fm.outcome.result) = MaxEntries
    /\ fm.outcome.result[1].name = "mistral"
    /\ fm.outcome.result[2].name = "llama"
    /\ fm.models = <<"mistral", "llama">>

\* the first n segments of a path
FirstSegments(path, n) == IF Len(path) <= n THEN path ELSE SubSeq(path, 1, n)

\* the base address with its path replaced, as a string
WithPath(baseURL, path) ==
    toString([hostname |-> baseURL.hostname, pathname |-> path, search |-> baseURL.search])

\* C12: for a base address on api.cloudflare.com, the run address is the base address
\* with its path cut to its first five segments, followed by /run, and the models-search
\* address is the same prefix followed by /models/search.
C12_DirectPrefix ==
    /\ (client.state = "built" /\ client.options.baseURL.hostname = DIRECT_HOST)
         => LET u == client.options.baseURL
            IN  /\ client.self.baseURL = WithPath(u, FirstSegments(u.pathname, 5)) \o "/run"
                /\ u.search = "" =>
                     ParseURL(client.self.baseURL).pathname
                        = FirstSegments(u.pathname, 5) \o <<"run">>
    /\ (fm.phase = "requested" /\ fm.baseURL.hostname = DIRECT_HOST)
         => fm.endpoint = WithPath(fm.baseURL, FirstSegments(fm.baseURL.pathname, 5))
                            \o "/models/search"

C12_Witness ==
    /\ client.state = "built"
    /\ client.options.baseURL = Url(DIRECT_HOST, DirectPrefix \o <<"v1">>, "")
    /\ client.self.baseURL = "https://api.cloudflare.com/client/v4/accounts/ACC/ai/run"
    /\ fm.endpoint = "https://api.cloudflare.com/client/v4/accounts/ACC/ai/models/search"

C20_ResolveIdempotent ==
    (client.state = "built" /\ client.previous # ""
        /\ (\/ client.options.baseURL.hostname = DIRECT_HOST
            \/ /\ client.options.baseURL.hostname = GATEWAY_HOST
               /\ Len(client.options.baseURL.pathname) >= 4))
      => client.self.baseURL = client.previous

C20_Witness ==
    /\ client.state = "built"
    /\ client.options.baseURL = Url(GATEWAY_HOST, GatewayPrefix \o <<"workers-ai">>, "")
    /\ client.previous = "https://gateway.ai.cloudflare.com/v1/ACC/GW/workers-ai/run"
    /\ client.self.baseURL = client.previous

Last(seq) == seq[Len(seq)]

\* C14: in a call whose promise is resolved, onProgress got [DONE] exactly once, as its
\* last invocation, whatever events the event source delivered.
C14_SentinelOnceAndLast ==
    \A c \in Calls :
        promise[c].state = "resolved" =>
            /\ Count(progress[c], SENTINEL) = 1
            /\ Last(progress[c]) = SENTINEL

\* C15: a close that follows a handled [DONE] (done is set) neither invokes onProgress
\* nor settles the promise.
C15_CloseAfterDone ==
    [][\A c \in Calls :
         (done[c] /\ phase[c] = "streaming" /\ phase'[c] = "closed") =>
             /\ progress'[c] = progress[c]
             /\ promise'[c] = promise[c]]_vars

C15_Witness ==
    /\ phase["A"] = "closed"
    /\ done["A"]
    /\ progress["A"] = <<"Hi", SENTINEL>>
    /\ promise["A"] = Resolved("Hi")

\* C16: once [DONE] was handled, onProgress is not invoked again and the accumulated
\* text stays the resolved value.
C16_DoneIsTerminal ==
    \A c \in Calls :
        done[c] =>
            /\ promise[c] = Resolved(intermediateReply[c])
            /\ progress[c] = Texts(arrived[c]) \o <<SENTINEL>>

\* C17: while the sleep started by a fragment's handler has not completed, the delivery
\* of the next message of the call does not invoke onProgress.
C17_Paced ==
    [][\A c \in Calls :
         (sleeping[c] # <<>> /\ arrived'[c] # arrived[c]) => progress'[c] = progress[c]]_vars

\* C18: a message whose event is ping or whose data is empty leaves the session as it
\* was: no onProgress, same text and done flag, promise not settled, no sleep started.
C18_PingAndEmptyIgnored ==
    [][\A c \in Calls :
         (/\ arrived'[c] # arrived[c]
          /\ (Last(arrived'[c]).event = "ping" \/ Last(arrived'[c]).data = ""))
           => /\ progress'[c] = progress[c]
              /\ intermediateReply'[c] = intermediateReply[c]
              /\ done'[c] = done[c]
              /\ promise'[c] = promise[c]
              /\ sleeping'[c] = sleeping[c]]_vars

C18_Witness ==
    /\ arrived["A"] = << [event |-> "ping", data |-> FragHi], [event |-> "", data |-> ""] >>
    /\ phase["A"] = "streaming"
    /\ progress["A"] = <<>>
    /\ intermediateReply["A"] = ""
    /\ promise["A"] = Pending

\* what onProgress of a call must have received, from the events of that call alone
RECURSIVE Forwarded(_)
Forwarded(events) ==
    IF events = <<>> THEN <<>>
    ELSE IF IsSentinel(Head(events)) THEN <<SENTINEL>> \o Forwarded(Tail(events))
    ELSE IF IsFragment(Head(events))
         THEN <<JSONParseResponse(Head(events).data).response>> \o Forwarded(Tail(events))
         ELSE Forwarded(Tail(events))

\* C19: with two calls running side by side on one instance, the state of each call is
\* determined by its own events: its text is the concatenation of its own fragments,
\* its done flag says whether its own [DONE] arrived, its onProgress got its own events
\* only, and its promise is resolved with the text of a prefix of its own events.
C19_CallsIsolated ==
    \A c \in Calls :
        /\ intermediateReply[c] = Concat(Texts(arrived[c]))
        /\ done[c] = ~NoSentinelArrived(c)
        /\ progress[c] = Forwarded(arrived[c])
                           \o (IF phase[c] = "closed" /\ NoSentinelArrived(c)
                               THEN <<SENTINEL>> ELSE <<>>)
        /\ promise[c].state = "resolved" =>
             \E k \in 0..Len(arrived[c]) :
                 promise[c].value = Concat(Texts(SubSeq(arrived[c], 1, k)))
        /\ promise[c].state # "rejected"

\* both calls streaming at once, each resolved with its own text
C19_Witness ==
    /\ phase["A"] = "streaming"
    /\ phase["B"] = "streaming"
    /\ promise["A"] = Resolved("Hi")
    /\ promise["B"] = Resolved(" there")
    /\ sleeping["A"] # <<>>
    /\ sleeping["B"] # <<>>

====
